---- MODULE Spec2Model ----
(***************************************************************************)
(* Model of systrack's Kernel class (src/src/systrack/kernel.py): kernel   *)
(* version detection and caching, the syscall table unpacker, and the      *)
(* syscall extraction pipeline of Kernel.__extract_syscalls.              *)
(*                                                                         *)
(* Python values are modelled as follows.  None is the empty tuple <<>>    *)
(* where the other values are tuples (versions), and otherwise absence is  *)
(* membership in a set or in a function's domain.  A dict is a function,   *)
(* a list a sequence with Python index i at position i + 1.  An exception  *)
(* that leaves a method is recorded in the variable raised.                *)
(***************************************************************************)
EXTENDS Integers, Sequences, FiniteSets, TLC

VARIABLES
    vmlinux,           \* self.vmlinux: the ELF image (symbols, file, bits32, banner)
    kdir,              \* self.kdir: the source tree (what `make kernelversion` prints)
    arch_name,         \* self.arch_name: "None" when the caller gave none
    arch,              \* self.arch: the architecture profile
    enrichment,        \* what the location/signature collaborators will find
    pc,                \* position in the method that is running
    raised,            \* exception that escaped ("none" when there is none)
    ret,               \* value returned by __extract_syscalls
    vaddrs,            \* decoded table
    cur_idx_vaddr,     \* cursor of the adaptive decoder
    nread,             \* words read from the file so far by the unpacker
    ni_syscalls,       \* set of ni_syscall symbols
    symbols_by_vaddr,  \* dict vaddr -> Symbol
    symbols,           \* list of (idx, sym) of defined syscalls
    ni_total,
    n_skipped,
    n_esoteric,
    syscalls,          \* list of Syscall
    v__version,        \* self.__version
    v__version_source, \* self.__version_source
    version_out,       \* what the last read of the version property gave
    last_op            \* last Kernel method that ran to completion

vars == <<vmlinux, kdir, arch_name, arch, enrichment, pc, raised, ret, vaddrs, cur_idx_vaddr,
          nread, ni_syscalls, symbols_by_vaddr, symbols, ni_total, n_skipped,
          n_esoteric, syscalls, v__version, v__version_source, version_out, last_op>>

extractVars == <<pc, raised, ret, vaddrs, cur_idx_vaddr, nread, ni_syscalls,
                 symbols_by_vaddr, symbols, ni_total, n_skipped, n_esoteric, syscalls>>

versionVars == <<v__version, v__version_source, version_out, last_op>>

inputVars == <<vmlinux, kdir, arch_name, arch, enrichment>>

-----------------------------------------------------------------------------
(* Bounds of the model *)

\* Number of table slots whose content is drawn freely.
MaxSlots == 2

-----------------------------------------------------------------------------
(* Small helpers *)

Range(s) == {s[i] : i \in 1..Len(s)}

Min(a, b) == IF a <= b THEN a ELSE b

RECURSIVE SeqsOf(_, _)
\* All sequences of length n over S.
SeqsOf(S, n) == IF n = 0 THEN {<<>>}
                ELSE {Append(s, x) : s \in SeqsOf(S, n - 1), x \in S}

RECURSIVE Repeat(_, _)
Repeat(x, n) == IF n <= 0 THEN <<>> ELSE <<x>> \o Repeat(x, n - 1)

RECURSIVE Perms(_)
\* All enumeration orders of the finite set S.
Perms(S) == IF S = {} THEN {<<>>}
            ELSE UNION {{<<x>> \o p : p \in Perms(S \ {x})} : x \in S}

-----------------------------------------------------------------------------
(* The image: sections, symbols and the file content at the table *)

Sym(name, vaddr, type, size) ==
    [name |-> name, vaddr |-> vaddr, type |-> type, size |-> size]

\* self.vmlinux.sections['.text']: [0x1000, 0x9000)
TextSection == [name |-> ".text", vaddr |-> 4096, size |-> 32768]

\* self.vmlinux.sections['.opd']: [0xb000, 0xc000), on images that have one
OpdSection == [name |-> ".opd", vaddr |-> 45056, size |-> 4096]

\* Addresses of the image.  The table lies outside .text; ni is the first
\* byte of .text, nosym lies in .text and has no symbol.
Va == [tbl |-> 40960, ni |-> 4096, read |-> 8192, write |-> 12288,
       eso |-> 16384, nosym |-> 20480]

TblVaddr == Va.tbl
VaNi     == Va.ni
VaRead   == Va.read
VaWrite  == Va.write
VaEso    == Va.eso
VaNoSym  == Va.nosym
\* The first byte after .text
VaOut    == TextSection.vaddr + TextSection.size

SlotWords == {VaNi, VaRead, VaWrite, VaNoSym, VaOut}

SymNi       == Sym("sys_ni_syscall", VaNi, "FUNC", 16)
SymCompatNi == Sym("compat_ni_syscall", VaNi, "FUNC", 16)
SymVm86     == Sym("sys_vm86", VaNi, "FUNC", 16)
SymRead     == Sym("sys_read", VaRead, "FUNC", 64)
SymSeRead   == Sym("__se_sys_read", VaRead, "FUNC", 64)
SymX64Read  == Sym("__x64_sys_read", VaRead, "FUNC", 64)
SymWrite    == Sym("sys_write", VaWrite, "FUNC", 64)
SymEso      == Sym("sys_spu_run", VaEso, "FUNC", 64)

SymTable(size) == Sym("sys_call_table", TblVaddr, "OBJECT", size)

\* Another data symbol (e.g. the compat table) at byte offset off from the table
SymNextTable(off) == Sym("compat_sys_call_table", TblVaddr + off, "OBJECT", 0)

\* self.vmlinux.functions: the FUNC symbols
Functions(img) == {s \in img.symbols : s.type = "FUNC"}

\* self.vmlinux.symbols.get(name): the set of symbols of that name (empty: None)
SymbolsNamed(img, name) == {s \in img.symbols : s.name = name}

-----------------------------------------------------------------------------
(* The architecture profile (systrack.arch, a collaborator) *)

\* arch.symbol_is_ni_syscall(sym)
symbol_is_ni_syscall(sym) == sym.name \in {"sys_ni_syscall", "compat_ni_syscall"}

\* Rank used by the name-based tie-break: a plain sys_ name is preferred.
NameRank(sym) ==
    CASE sym.name = "sys_ni_syscall"    -> 0
      [] sym.name = "sys_read"          -> 0
      [] sym.name = "sys_write"         -> 0
      [] sym.name = "compat_ni_syscall" -> 1
      [] sym.name = "__se_sys_read"     -> 1
      [] OTHER                          -> 2

\* arch.preferred_symbol(a, b): one of its two arguments.  Four tie-breaks are
\* modelled: always the first argument, always the second, by name, and one
\* that decides each pair alike whichever its order but prefers in a circle
\* (rank 0 over 1, 1 over 2, 2 over 0).
preferred_symbol(a, b) ==
    CASE arch.pref = "first"  -> a
      [] arch.pref = "second" -> b
      [] arch.pref = "cycle"  -> IF NameRank(a) = NameRank(b) THEN a
                                 ELSE IF (NameRank(b) - NameRank(a)) % 3 = 1 THEN a
                                 ELSE b
      [] OTHER                -> IF NameRank(a) <= NameRank(b) THEN a ELSE b

\* noprefix + arch.translate_syscall_symbol_name + arch.normalize_syscall_name
SyscallName(symname) ==
    CASE symname = "sys_read"      -> "read"
      [] symname = "__se_sys_read" -> "read"
      [] symname = "sys_write"     -> "write"
      [] symname = "sys_vm86"      -> "vm86"
      [] OTHER                     -> symname

\* arch.skip_syscall(sc)
skip_syscall(sc) == sc.name \in arch.skip

\* One entry of arch.esoteric_syscalls[version]: (num, name, sym_name, sig)
EsotericEntry(num, name, symname) ==
    [num |-> num, name |-> name, sym_name |-> symname, sig |-> "sig"]

\* arch.is_dummy_syscall(sc, vmlinux)
is_dummy_syscall(sc) == sc.symbol.name \in arch.dummy

-----------------------------------------------------------------------------
(* Kernel.__init__ (the part the extraction depends on) *)

\* self.__long_size
long_size == IF vmlinux.bits32 THEN 4 ELSE 8

-----------------------------------------------------------------------------
(* Kernel.__unpack_syscall_table *)

\* Declared size above which the table symbol's size is trusted
StrictThreshold == 128

InTarget(vaddr, section) ==
    section.vaddr <= vaddr /\ vaddr < section.vaddr + section.size

\* Bytes f.read(size) returns at the table's offset: fewer at the end of file
BytesRead(size) == Min(size, Len(vmlinux.file) * long_size)

\* struct.iter_unpack raises struct.error unless the buffer is a whole number
\* of words
StrictRaises(tbl) == BytesRead(tbl.size) % long_size # 0

\* list(self.__iter_unpack_vmlinux_long(tbl_file_off, tbl.size))
StrictVaddrs(tbl) == SubSeq(vmlinux.file, 1, BytesRead(tbl.size) \div long_size)

\* The boundaries without boundaries.discard(cur_idx_vaddr)
Boundaries_NoDiscard(tbl) ==
    {s.vaddr : s \in {x \in vmlinux.symbols : x.type # "FUNC"}}

\* boundaries: addresses of the non-FUNC symbols, the table's own address apart
Boundaries(tbl) ==
    {s.vaddr : s \in {x \in vmlinux.symbols : x.type # "FUNC"}} \ {tbl.vaddr}

\* The entry with any size above one pointer trusted (tbl.size > long_size)
UnpackBegin_OnePointer(tbl, next_pc) ==
    IF tbl.size > long_size
    THEN IF StrictRaises(tbl)
         THEN /\ pc' = "raised"
              /\ raised' = "struct.error"
              /\ UNCHANGED <<vaddrs, cur_idx_vaddr, nread>>
         ELSE /\ vaddrs' = StrictVaddrs(tbl)
              /\ nread' = Len(StrictVaddrs(tbl))
              /\ pc' = next_pc
              /\ UNCHANGED <<raised, cur_idx_vaddr>>
    ELSE /\ cur_idx_vaddr' = tbl.vaddr
         /\ vaddrs' = <<>>
         /\ nread' = 0
         /\ pc' = "adaptive"
         /\ UNCHANGED raised

\* Entry of __unpack_syscall_table up to the start of the adaptive loop.
UnpackBegin(tbl, next_pc) ==
    IF tbl.size > StrictThreshold
    THEN IF StrictRaises(tbl)
         THEN /\ pc' = "raised"
              /\ raised' = "struct.error"
              /\ UNCHANGED <<vaddrs, cur_idx_vaddr, nread>>
         ELSE /\ vaddrs' = StrictVaddrs(tbl)
              /\ nread' = Len(StrictVaddrs(tbl))
              /\ pc' = next_pc
              /\ UNCHANGED <<raised, cur_idx_vaddr>>
    ELSE /\ cur_idx_vaddr' = tbl.vaddr
         /\ vaddrs' = <<>>
         /\ nread' = 0
         /\ pc' = "adaptive"
         /\ UNCHANGED raised

\* One iteration of the adaptive loop: the generator reads the next word, then
\* the loop body tests it.
AdaptiveIteration(tbl, section, next_pc) ==
    IF nread >= Len(vmlinux.file)
    THEN \* f.read() at the end of file gives too few bytes for struct.unpack
         /\ pc' = "raised"
         /\ raised' = "struct.error"
         /\ UNCHANGED <<vaddrs, cur_idx_vaddr, nread>>
    ELSE LET vaddr == vmlinux.file[nread + 1] IN
         /\ nread' = nread + 1
         /\ UNCHANGED raised
         /\ IF ~InTarget(vaddr, section)
            THEN pc' = next_pc /\ UNCHANGED <<vaddrs, cur_idx_vaddr>>
            ELSE IF cur_idx_vaddr \in Boundaries(tbl)
            THEN pc' = next_pc /\ UNCHANGED <<vaddrs, cur_idx_vaddr>>
            ELSE /\ vaddrs' = Append(vaddrs, vaddr)
                 /\ cur_idx_vaddr' = cur_idx_vaddr + long_size
                 /\ UNCHANGED pc

-----------------------------------------------------------------------------
(* Function descriptors: the words of .opd *)

\* Address of the descriptor of code address c (one 16-byte descriptor per
\* 0x1000 bytes of code)
DescOf(c) == OpdSection.vaddr + ((c - TextSection.vaddr) \div 4096) * 16

\* self.vmlinux.vaddr_read(desc_vaddr, long_size), unpacked: the code address
\* the descriptor holds
OpdRead(desc_vaddr) ==
    TextSection.vaddr + ((desc_vaddr - OpdSection.vaddr) \div 16) * 4096

\* Translate function descriptors (one more level of indirection)
Translate(descriptors) == [i \in 1..Len(descriptors) |-> OpdRead(descriptors[i])]

-----------------------------------------------------------------------------
(* Kernel.__extract_syscalls *)

\* `return x` from __extract_syscalls
Return(x) == pc' = "done" /\ ret' = x

\* An exception leaves __extract_syscalls
Raise(exc) == pc' = "raised" /\ raised' = exc

\* tbl = self.vmlinux.symbols.get(syscall_table_name)
TableSymbol == CHOOSE t \in SymbolsNamed(vmlinux, "sys_call_table") : TRUE

\* The section the table's words should point into
TargetSection == IF arch.uses_function_descriptors THEN OpdSection ELSE TextSection

\* Lines 239-286: the checks before the table is read, and the start of the
\* unpacking.
ExtractBegin ==
    /\ pc = "start"
    /\ IF arch.bits32 # vmlinux.bits32
       THEN Return(<<>>) /\ UNCHANGED <<raised, vaddrs, cur_idx_vaddr, nread>>
       ELSE IF SymbolsNamed(vmlinux, "sys_call_table") = {}
       THEN Return(<<>>) /\ UNCHANGED <<raised, vaddrs, cur_idx_vaddr, nread>>
       ELSE IF arch.uses_function_descriptors /\ ~vmlinux.has_opd
       THEN Return(<<>>) /\ UNCHANGED <<raised, vaddrs, cur_idx_vaddr, nread>>
       ELSE UnpackBegin(TableSymbol, "unpacked") /\ UNCHANGED ret
    /\ UNCHANGED <<ni_syscalls, symbols_by_vaddr, symbols, ni_total, n_skipped,
                   n_esoteric, syscalls>>
    /\ UNCHANGED <<inputVars, versionVars>>

\* Lines 221-232 run from __extract_syscalls
ExtractAdaptive ==
    /\ pc = "adaptive"
    /\ AdaptiveIteration(TableSymbol, TargetSection, "unpacked")
    /\ UNCHANGED <<ret, ni_syscalls, symbols_by_vaddr, symbols, ni_total, n_skipped,
                   n_esoteric, syscalls>>
    /\ UNCHANGED <<inputVars, versionVars>>

\* ni_syscalls: the function symbols the architecture calls not implemented
NiSyscalls == {sym \in Functions(vmlinux) : symbol_is_ni_syscall(sym)}

\* {sym.vaddr: sym for sym in ni_syscalls}: the set is iterated in an order the
\* model does not know, and the last symbol of an address stays.
NiMaps(ni) == {f \in [{s.vaddr : s \in ni} -> ni] : \A a \in DOMAIN f : f[a].vaddr = a}

\* Lines 270-307: descriptors translated, the ni_syscall symbols collected.
FindNiSyscalls ==
    /\ pc = "unpacked"
    /\ LET vas == IF arch.uses_function_descriptors THEN Translate(vaddrs) ELSE vaddrs IN
       /\ vaddrs' = vas
       /\ IF vas = <<>>
          THEN Return(<<>>) /\ UNCHANGED <<ni_syscalls, symbols_by_vaddr>>
          ELSE IF NiSyscalls = {}
          THEN Return(<<>>) /\ UNCHANGED <<ni_syscalls, symbols_by_vaddr>>
          ELSE /\ ni_syscalls' = NiSyscalls
               /\ symbols_by_vaddr' \in NiMaps(NiSyscalls)
               /\ pc' = "resolve"
               /\ UNCHANGED ret
    /\ UNCHANGED <<raised, cur_idx_vaddr, nread, symbols, ni_total, n_skipped,
                   n_esoteric, syscalls>>
    /\ UNCHANGED <<inputVars, versionVars>>

\* d[k] = v
Put(d, k, v) == [x \in DOMAIN d \cup {k} |-> IF x = k THEN v ELSE d[x]]

\* The loop body without the test that keeps a ni_syscall in place: every
\* collision goes to the architecture's tie-break
ResolveSymbol_NoNiPrecedence(d, sym, seen, ni) ==
    IF sym.vaddr \notin seen THEN d
    ELSE IF sym.vaddr \in DOMAIN d /\ d[sym.vaddr] = sym THEN d
    ELSE IF sym.vaddr \in DOMAIN d
    THEN Put(d, sym.vaddr, preferred_symbol(sym, d[sym.vaddr]))
    ELSE Put(d, sym.vaddr, sym)

\* The loop body without the tie-break: the symbol enumerated last stays
ResolveSymbol_LastWins(d, sym, seen, ni) ==
    IF sym.vaddr \notin seen THEN d
    ELSE IF sym.vaddr \in DOMAIN d /\ d[sym.vaddr] \in ni /\ sym \notin ni THEN d
    ELSE Put(d, sym.vaddr, sym)

\* Lines 311-332: the body of the loop over self.vmlinux.symbols.values()
ResolveSymbol(d, sym, seen, ni) ==
    IF sym.vaddr \notin seen THEN d
    ELSE IF sym.vaddr \in DOMAIN d /\ d[sym.vaddr] = sym THEN d
    ELSE IF sym.vaddr \in DOMAIN d
    THEN LET other == d[sym.vaddr] IN
         IF other \in ni /\ sym \notin ni
         THEN d  \* Don't allow other symbols to "override" a ni_syscall
         ELSE Put(d, sym.vaddr, preferred_symbol(sym, other))
    ELSE Put(d, sym.vaddr, sym)

RECURSIVE ResolveAll(_, _, _, _)
\* The loop of lines 311-332 over the symbols in the order given
ResolveAll(d, order, seen, ni) ==
    IF order = <<>> THEN d
    ELSE ResolveAll(ResolveSymbol(d, Head(order), seen, ni), Tail(order), seen, ni)

\* The orders in which self.vmlinux.symbols.values() may enumerate the symbols.
\* A symbol whose address is not in the table leaves the dict alone wherever it
\* comes, so only the symbols of the table's addresses are ordered.
SymbolOrders(seen) == Perms({s \in vmlinux.symbols : s.vaddr \in seen})

\* Lines 306-334
Resolve ==
    /\ pc = "resolve"
    /\ symbols_by_vaddr' \in
          {ResolveAll(symbols_by_vaddr, order, Range(vaddrs), ni_syscalls) :
              order \in SymbolOrders(Range(vaddrs))}
    /\ pc' = "sanity"
    /\ UNCHANGED <<raised, ret, vaddrs, cur_idx_vaddr, nread, ni_syscalls, symbols,
                   ni_total, n_skipped, n_esoteric, syscalls>>
    /\ UNCHANGED <<inputVars, versionVars>>

\* Counter(vaddrs)[a]
Count(vas, a) == Cardinality({i \in 1..Len(vas) : vas[i] = a})

FirstIndex(vas, a) == CHOOSE i \in 1..Len(vas) : vas[i] = a /\ \A j \in 1..(i - 1) : vas[j] # a

\* counts[0][0]: sorted() is stable, so among the most frequent addresses the one
\* that appears first in the table comes first
MostFrequent(vas) ==
    CHOOSE a \in Range(vas) : \A b \in Range(vas) :
        \/ Count(vas, a) > Count(vas, b)
        \/ Count(vas, a) = Count(vas, b) /\ FirstIndex(vas, a) <= FirstIndex(vas, b)

\* Lines 336-357
SanityCheck ==
    /\ pc = "sanity"
    /\ IF DOMAIN symbols_by_vaddr = {}
       THEN Return(<<>>) /\ UNCHANGED raised
       ELSE IF MostFrequent(vaddrs) \notin DOMAIN symbols_by_vaddr
       THEN Raise("KeyError") /\ UNCHANGED ret  \* best = symbols_by_vaddr[counts[0][0]]
       ELSE pc' = "filter" /\ UNCHANGED <<raised, ret>>
    /\ UNCHANGED <<vaddrs, cur_idx_vaddr, nread, ni_syscalls, symbols_by_vaddr, symbols,
                   ni_total, n_skipped, n_esoteric, syscalls>>
    /\ UNCHANGED <<inputVars, versionVars>>

RECURSIVE KeptSymbols(_, _, _, _)
KeptSymbols(vas, d, ni, i) ==
    IF i > Len(vas) THEN <<>>
    ELSE IF vas[i] \notin DOMAIN d \/ d[vas[i]] \in ni THEN KeptSymbols(vas, d, ni, i + 1)
    ELSE <<d[vas[i]]>> \o KeptSymbols(vas, d, ni, i + 1)

\* The defined symbols numbered by their position among the symbols kept, not
\* by their slot: enumerate() applied after the filter instead of before
DefinedSymbols_Renumbered(vas, d, ni, i) ==
    [k \in 1..Len(KeptSymbols(vas, d, ni, i)) |->
        [idx |-> k - 1, sym |-> KeptSymbols(vas, d, ni, i)[k]]]

RECURSIVE DefinedSymbols(_, _, _, _)
\* Lines 364-379: the (idx, sym) of the slots that resolve to a symbol that is
\* no ni_syscall, from position i on
DefinedSymbols(vas, d, ni, i) ==
    IF i > Len(vas) THEN <<>>
    ELSE IF vas[i] \notin DOMAIN d THEN DefinedSymbols(vas, d, ni, i + 1)
    ELSE IF d[vas[i]] \in ni THEN DefinedSymbols(vas, d, ni, i + 1)
    ELSE <<[idx |-> i - 1, sym |-> d[vas[i]]]>> \o DefinedSymbols(vas, d, ni, i + 1)

\* Sum of ni_count: the slots that resolve to a ni_syscall
NiCount(vas, d, ni) ==
    Cardinality({i \in 1..Len(vas) : vas[i] \in DOMAIN d /\ d[vas[i]] \in ni})

\* Lines 359-379
FilterDefined ==
    /\ pc = "filter"
    /\ symbols' = DefinedSymbols(vaddrs, symbols_by_vaddr, ni_syscalls, 1)
    /\ ni_total' = NiCount(vaddrs, symbols_by_vaddr, ni_syscalls)
    /\ pc' = "build"
    /\ UNCHANGED <<raised, ret, vaddrs, cur_idx_vaddr, nread, ni_syscalls,
                   symbols_by_vaddr, n_skipped, n_esoteric, syscalls>>
    /\ UNCHANGED <<inputVars, versionVars>>

\* No file: Syscall.file is None
NoFile == <<>>

\* Syscall(idx, num, name, origname, sym, kdeps): index -1 stands for None
Syscall(idx, num, name, sym, sig, esoteric) ==
    [index |-> idx, number |-> num, name |-> name, symbol |-> sym,
     signature |-> sig, esoteric |-> esoteric,
     file |-> NoFile, good_location |-> FALSE]

\* Lines 392-403: the Syscall of one (idx, sym)
TableSyscall(e) ==
    Syscall(e.idx, arch.syscall_num_base + e.idx, SyscallName(e.sym.name), e.sym,
            "None", FALSE)

RECURSIVE BuildSyscalls(_, _)
\* Lines 391-410: the syscalls kept, from position i of symbols on
BuildSyscalls(syms, i) ==
    IF i > Len(syms) THEN <<>>
    ELSE IF skip_syscall(TableSyscall(syms[i])) THEN BuildSyscalls(syms, i + 1)
    ELSE <<TableSyscall(syms[i])>> \o BuildSyscalls(syms, i + 1)

\* The count of a loop that skips a syscall without n_skipped += 1
SkippedCount_NotCounted(syms) == 0

\* n_skipped of lines 405-408
SkippedCount(syms) ==
    Cardinality({i \in 1..Len(syms) : skip_syscall(TableSyscall(syms[i]))})

\* Lines 386-410
Build ==
    /\ pc = "build"
    /\ syscalls' = BuildSyscalls(symbols, 1)
    /\ n_skipped' = SkippedCount(symbols)
    /\ pc' = "esoteric"
    /\ UNCHANGED <<raised, ret, vaddrs, cur_idx_vaddr, nread, ni_syscalls,
                   symbols_by_vaddr, symbols, ni_total, n_esoteric>>
    /\ UNCHANGED <<inputVars, versionVars>>

\* Line 418: self.vmlinux.symbols[sym_name] raises KeyError for a missing name
EsotericMissing(esoteric) ==
    \E i \in 1..Len(esoteric) : SymbolsNamed(vmlinux, esoteric[i].sym_name) = {}

\* Lines 417-419: the Syscall of each hardcoded entry
EsotericSyscalls(esoteric) ==
    [i \in 1..Len(esoteric) |->
        Syscall(-1, esoteric[i].num, esoteric[i].name,
                CHOOSE s \in SymbolsNamed(vmlinux, esoteric[i].sym_name) : TRUE,
                esoteric[i].sig, TRUE)]

\* Lines 412-419
AddEsoteric ==
    /\ pc = "esoteric"
    /\ n_esoteric' = Len(arch.esoteric)
    /\ IF EsotericMissing(arch.esoteric)
       THEN Raise("KeyError") /\ UNCHANGED syscalls
       ELSE /\ syscalls' = syscalls \o EsotericSyscalls(arch.esoteric)
            /\ pc' = "assert"
            /\ UNCHANGED raised
    /\ UNCHANGED <<ret, vaddrs, cur_idx_vaddr, nread, ni_syscalls, symbols_by_vaddr,
                   symbols, ni_total, n_skipped>>
    /\ UNCHANGED <<inputVars, versionVars>>

\* Line 426: the asserted equation
CountsAgree ==
    Len(syscalls) = Len(vaddrs) - ni_total - n_skipped + n_esoteric

\* Lines 421-426
CheckCounts ==
    /\ pc = "assert"
    /\ IF CountsAgree
       THEN pc' = "enrich" /\ UNCHANGED raised
       ELSE Raise("AssertionError")
    /\ UNCHANGED <<ret, vaddrs, cur_idx_vaddr, nread, ni_syscalls, symbols_by_vaddr,
                   symbols, ni_total, n_skipped, n_esoteric, syscalls>>
    /\ UNCHANGED <<inputVars, versionVars>>

\* What extract_syscall_locations and extract_syscall_signatures (collaborators)
\* find for a syscall: its file, whether the location is good, its signature
Found(sc) == enrichment[sc.symbol.name]

\* Lines 428-431: the collaborators fill file, good_location and signature of
\* every syscall that is not esoteric, and add or remove none
Enrich ==
    /\ pc = "enrich"
    /\ syscalls' = [i \in 1..Len(syscalls) |->
          IF syscalls[i].esoteric THEN syscalls[i]
          ELSE [syscalls[i] EXCEPT !.file = Found(syscalls[i]).file,
                                   !.good_location = Found(syscalls[i]).good,
                                   !.signature = Found(syscalls[i]).sig]]
    /\ pc' = "implemented"
    /\ UNCHANGED <<raised, ret, vaddrs, cur_idx_vaddr, nread, ni_syscalls,
                   symbols_by_vaddr, symbols, ni_total, n_skipped, n_esoteric>>
    /\ UNCHANGED <<inputVars, versionVars>>

\* file.match('**/kernel/sys_ni.c'): pathlib matches a relative pattern from the
\* right, one pattern component per path component, '**' standing for any one
\* component
MatchesSysNi(file) ==
    /\ Len(file) >= 3
    /\ file[Len(file)] = "sys_ni.c"
    /\ file[Len(file) - 1] = "kernel"

\* The test with a syscall without location dropped like one of sys_ni.c
IsImplemented_MissingLocationDropped(sc) ==
    IF ~sc.esoteric
    THEN IF is_dummy_syscall(sc) THEN FALSE
         ELSE IF ~sc.good_location
         THEN sc.file # NoFile /\ ~MatchesSysNi(sc.file)
         ELSE TRUE
    ELSE TRUE

\* Lines 443-469: whether the loop reaches implemented.append(sc)
IsImplemented(sc) ==
    IF ~sc.esoteric
    THEN IF is_dummy_syscall(sc) THEN FALSE
         ELSE IF ~sc.good_location /\ sc.file # NoFile
         THEN ~MatchesSysNi(sc.file)
         ELSE TRUE
    ELSE TRUE

RECURSIVE Implemented(_, _)
\* Lines 435-493: the syscalls kept, from position i on
Implemented(scs, i) ==
    IF i > Len(scs) THEN <<>>
    ELSE IF IsImplemented(scs[i]) THEN <<scs[i]>> \o Implemented(scs, i + 1)
    ELSE Implemented(scs, i + 1)

\* Lines 433-504
ImplementationFilter ==
    /\ pc = "implemented"
    /\ Return(Implemented(syscalls, 1))
    /\ UNCHANGED <<raised, vaddrs, cur_idx_vaddr, nread, ni_syscalls, symbols_by_vaddr,
                   symbols, ni_total, n_skipped, n_esoteric, syscalls>>
    /\ UNCHANGED <<inputVars, versionVars>>

-----------------------------------------------------------------------------
(* Images, architecture profiles and enrichment results the model runs on *)

\* Declared sizes of the table symbol: 0x88 is trusted, 0 is not
StrictSize == StrictThreshold + 8

\* Words of the table's file content: the first MaxSlots are drawn freely, the
\* remaining slots of a table of n words point to the ni_syscall, and the word
\* that follows the table is the first slot of the next table.
TableFiles(n) ==
    {prefix \o Repeat(VaNi, n - MaxSlots) \o <<VaRead>> : prefix \in SeqsOf(SlotWords, MaxSlots)}

\* The symbols every image has
BaseSymbols == {SymRead, SymWrite, SymEso}

\* The symbols an image may have or lack
OptionalSymbols == {SymNi, SymCompatNi, SymVm86, SymSeRead}

Banner == <<"Linux version ", "5", ".", "4", ".", "0", "-", "rc1">>

Image(bits32, syms, file, has_opd) ==
    [given |-> TRUE, bits32 |-> bits32, symbols |-> syms, file |-> file,
     has_opd |-> has_opd, banner |-> <<Banner>>]

\* 64-bit images: a table of declared size 0 and MaxSlots slots, or one of
\* declared size 0x88 and 17 slots, each followed by the next table
Images ==
    {Image(FALSE, BaseSymbols \cup opt \cup {SymTable(0), SymNextTable(MaxSlots * 8)}, f, TRUE) :
        opt \in SUBSET OptionalSymbols, f \in TableFiles(MaxSlots)}
    \cup
    {Image(FALSE, BaseSymbols \cup opt \cup {SymTable(StrictSize), SymNextTable(StrictSize)}, f, TRUE) :
        opt \in SUBSET OptionalSymbols, f \in TableFiles(StrictSize \div 8)}

\* The image whose table holds descriptor addresses instead of code addresses
WithDescriptors(img) ==
    [img EXCEPT !.file = [i \in 1..Len(img.file) |-> DescOf(img.file[i])]]

Arch(bits32, base, fdesc, skip, esoteric, pref) ==
    [bits32 |-> bits32, syscall_num_base |-> base, uses_function_descriptors |-> fdesc,
     skip |-> skip, esoteric |-> esoteric, pref |-> pref, dummy |-> {}]

EsotericLists ==
    { <<>>,
      <<EsotericEntry(1024, "spu_run", "sys_spu_run")>>,
      <<EsotericEntry(1023, "spu_create", "sys_spu_create"),
        EsotericEntry(1024, "spu_run", "sys_spu_run")>> }

\* 64-bit profiles without function descriptors: every numbering base, skip set
\* and esoteric list with the tie-break by name, and the two other tie-breaks
PlainArchs ==
    {Arch(FALSE, b.base, FALSE, b.skip, e, "name") :
        b \in {[base |-> 0, skip |-> {}], [base |-> 4000, skip |-> {"write"}]},
        e \in EsotericLists}
    \cup
    {Arch(FALSE, 0, FALSE, {}, <<>>, p) : p \in {"first", "second"}}

\* A 64-bit profile with function descriptors, and a 32-bit profile
DescriptorArch == Arch(FALSE, 0, TRUE, {}, <<>>, "name")
Arch32 == Arch(TRUE, 4000, FALSE, {}, <<>>, "name")

GoodFile == <<"src", "fs", "read_write.c">>

\* Every symbol gets a good location and a signature
AllFound == [n \in {s.name : s \in BaseSymbols \cup OptionalSymbols} |->
                [file |-> GoodFile, good |-> TRUE, sig |-> "sig"]]

-----------------------------------------------------------------------------
(* The extraction, from a constructed Kernel whose syscalls property is read *)

ExtractInit ==
    /\ pc = "start"
    /\ raised = "none"
    /\ ret = <<>>
    /\ vaddrs = <<>>
    /\ cur_idx_vaddr = 0
    /\ nread = 0
    /\ ni_syscalls = {}
    /\ symbols_by_vaddr = <<>>
    /\ symbols = <<>>
    /\ ni_total = 0
    /\ n_skipped = 0
    /\ n_esoteric = 0
    /\ syscalls = <<>>

\* The version of a Kernel constructed from an image with a banner
VersionKnown ==
    /\ v__version = <<5, 4, 0>>
    /\ v__version_source = "vmlinux"
    /\ version_out = <<>>
    /\ last_op = "init"
    /\ kdir = [given |-> FALSE, make |-> <<>>]
    /\ arch_name = "None"

Init ==
    /\ \/ /\ arch \in PlainArchs
          /\ vmlinux \in Images
       \/ /\ arch = DescriptorArch
          /\ \E img \in Images, opd \in BOOLEAN :
                vmlinux = [WithDescriptors(img) EXCEPT !.has_opd = opd]
       \/ /\ arch \in {Arch32, Arch(FALSE, 0, FALSE, {}, <<>>, "name")}
          /\ \E img \in Images :
                vmlinux = [img EXCEPT !.symbols = @ \ SymbolsNamed(img, "sys_call_table")]
    /\ enrichment = AllFound
    /\ ExtractInit
    /\ VersionKnown

Next ==
    \/ ExtractBegin
    \/ ExtractAdaptive
    \/ FindNiSyscalls
    \/ Resolve
    \/ SanityCheck
    \/ FilterDefined
    \/ Build
    \/ AddEsoteric
    \/ CheckCounts
    \/ Enrich
    \/ ImplementationFilter

Spec == Init /\ [][Next]_vars

-----------------------------------------------------------------------------
(* The table unpacker alone: __unpack_syscall_table(tbl, text) on images of *)
(* both widths, with every kind of declared size and of neighbouring symbol *)

\* Declared sizes for words of ls bytes: none, one and two words, the threshold,
\* one word more, and a size that is no whole number of words
TableSizes(ls) ==
    {0, ls, 2 * ls, StrictThreshold, StrictThreshold + ls, StrictThreshold + 2}

\* Symbols that may lie at or after the table: at the table's own address, at
\* one of its first slots, or none
Neighbours(ls) ==
    {{}} \cup {{Sym("compat_sys_call_table", TblVaddr + k * ls, t, 0)} :
                  k \in 0..(MaxSlots + 1), t \in {"OBJECT", "FUNC"}}

\* File contents: MaxSlots free words, then either the end of the file or
\* in-range words up to the length of the longest declared table
UnpackFiles(ls) ==
    {prefix \o tail : prefix \in SeqsOf(SlotWords, MaxSlots),
                      tail \in {<<>>, Repeat(VaNi, (StrictThreshold \div ls) + 1 - MaxSlots)}}

UnpackInit ==
    /\ \E bits32 \in BOOLEAN :
          LET ls == IF bits32 THEN 4 ELSE 8 IN
          /\ arch = Arch(bits32, 0, FALSE, {}, <<>>, "name")
          /\ \E size \in TableSizes(ls), nb \in Neighbours(ls), f \in UnpackFiles(ls) :
                vmlinux = Image(bits32, BaseSymbols \cup {SymNi, SymTable(size)} \cup nb, f, FALSE)
    /\ enrichment = AllFound
    /\ ExtractInit
    /\ VersionKnown

UnpackNext ==
    \/ ExtractBegin
    \/ ExtractAdaptive

SpecUnpack == UnpackInit /\ [][UnpackNext]_vars

-----------------------------------------------------------------------------
(* The symbol resolution alone, on images with up to three symbols at the
   address of sys_read and up to two placeholders at one address, under each
   tie-break *)

\* The tie-breaks of the architecture profiles
TieBreaks == {"name", "first", "second", "cycle"}

\* Symbols of the images: sys_ni_syscall always, each of the others or not
AliasedSymbols ==
    {BaseSymbols \cup {SymNi} \cup opt : opt \in SUBSET {SymCompatNi, SymSeRead, SymX64Read}}

ResolveInit ==
    /\ \E p \in TieBreaks : arch = Arch(FALSE, 0, FALSE, {}, <<>>, p)
    /\ \E syms \in AliasedSymbols, f \in TableFiles(MaxSlots) :
          vmlinux = Image(FALSE, syms \cup {SymTable(0), SymNextTable(MaxSlots * 8)}, f, TRUE)
    /\ enrichment = AllFound
    /\ ExtractInit
    /\ VersionKnown

ResolveNext ==
    \/ ExtractBegin
    \/ ExtractAdaptive
    \/ FindNiSyscalls
    \/ Resolve

SpecResolve == ResolveInit /\ [][ResolveNext]_vars

-----------------------------------------------------------------------------
(* The extraction on images whose table resolves to sys_read and sys_write,
   under every result of the enrichment and every dummy classification *)

SysNiFile == <<"src", "kernel", "sys_ni.c">>
SysFile   == <<"src", "kernel", "sys.c">>

\* What the enrichment collaborators leave in file, good_location, signature
Location(file, good, sig) == [file |-> file, good |-> good, sig |-> sig]

\* Results of the enrichment for one syscall.  Paths are absolute, as the
\* debug information and the source tree give them.
EnrichmentResults ==
    { Location(GoodFile, TRUE, "sig"),
      Location(GoodFile, FALSE, "None"),
      Location(SysFile, FALSE, "sig"),
      Location(SysNiFile, FALSE, "sig"),
      Location(SysNiFile, TRUE, "sig"),
      Location(NoFile, FALSE, "None") }

\* Enrichment results for sys_read and sys_write; the other symbols as AllFound
Enrichments ==
    {[n \in DOMAIN AllFound |->
        CASE n = "sys_read"  -> r
          [] n = "sys_write" -> w
          [] OTHER           -> AllFound[n]] : r, w \in EnrichmentResults}

\* Symbol names arch.is_dummy_syscall classifies as dummy
DummySets == { {}, {"sys_write"}, {"sys_read", "sys_spu_run"} }

FilterInit ==
    /\ \E dm \in DummySets :
          arch = [Arch(FALSE, 0, FALSE, {}, <<EsotericEntry(1024, "spu_run", "sys_spu_run")>>,
                       "name") EXCEPT !.dummy = dm]
    /\ \E f \in TableFiles(MaxSlots) :
          vmlinux = Image(FALSE, BaseSymbols \cup {SymNi, SymTable(0), SymNextTable(MaxSlots * 8)},
                          f, TRUE)
    /\ enrichment \in Enrichments
    /\ ExtractInit
    /\ VersionKnown

SpecFilter == FilterInit /\ [][Next]_vars

-----------------------------------------------------------------------------
(* Kernel version detection.  A string is a sequence of characters, with   *)
(* the banner's prefix 'Linux version ' as one element; a version is a     *)
(* tuple of numbers and None the empty tuple.                               *)

None == <<>>

Digits == {"0", "1", "2", "3", "4", "5", "6", "7", "8", "9"}

DigitValue(c) ==
    CASE c = "0" -> 0 [] c = "1" -> 1 [] c = "2" -> 2 [] c = "3" -> 3 [] c = "4" -> 4
      [] c = "5" -> 5 [] c = "6" -> 6 [] c = "7" -> 7 [] c = "8" -> 8 [] c = "9" -> 9

RECURSIVE DigitRun(_, _)
\* Length of the run of digits of str that starts at position i: what \d+ takes
DigitRun(str, i) ==
    IF i <= Len(str) /\ str[i] \in Digits THEN 1 + DigitRun(str, i + 1) ELSE 0

RECURSIVE ToInt(_, _, _)
\* int() of the n digits of str from position i on
ToInt(str, i, n) ==
    IF n = 0 THEN 0 ELSE ToInt(str, i, n - 1) * 10 + DigitValue(str[i + n - 1])

\* Kernel.version_from_str: re.match(r'(\d+)\.(\d+)(\.(\d+))?', s)
version_from_str(str) ==
    LET n1 == DigitRun(str, 1)
        dot1 == n1 + 1
        n2 == DigitRun(str, dot1 + 1)
        dot2 == dot1 + n2 + 1
        n3 == DigitRun(str, dot2 + 1)
    IN  IF n1 = 0 \/ dot1 > Len(str) \/ str[dot1] # "." \/ n2 = 0
        THEN None
        ELSE IF dot2 <= Len(str) /\ str[dot2] = "." /\ n3 > 0
        THEN <<ToInt(str, 1, n1), ToInt(str, dot1 + 1, n2), ToInt(str, dot2 + 1, n3)>>
        ELSE <<ToInt(str, 1, n1), ToInt(str, dot1 + 1, n2)>>

\* Kernel.version_from_banner
version_from_banner(banner) ==
    IF banner = <<>> \/ Head(banner) # "Linux version "
    THEN None
    ELSE version_from_str(Tail(banner))

\* Kernel.__version_from_vmlinux: vmlinux.banner holds the content of the
\* linux_banner symbol, and is empty when the image has no such symbol
version_from_vmlinux ==
    IF vmlinux.banner = <<>> THEN None ELSE version_from_banner(vmlinux.banner[1])

\* Kernel.__version_from_make: kdir.make is what `make kernelversion` prints
version_from_make == version_from_str(kdir.make)

\* The version with the build tool tried whenever the image gives none
DerivedVersion_Fallback ==
    IF v__version = None
    THEN IF vmlinux.given /\ version_from_vmlinux # None THEN version_from_vmlinux
         ELSE IF kdir.given THEN version_from_make
         ELSE IF vmlinux.given THEN None
         ELSE v__version
    ELSE v__version

\* self.__version after the first if of the version property
DerivedVersion ==
    IF v__version = None
    THEN IF vmlinux.given THEN version_from_vmlinux
         ELSE IF kdir.given THEN version_from_make
         ELSE v__version
    ELSE v__version

\* self.__version_source after the first if of the version property
DerivedSource ==
    IF v__version = None
    THEN IF vmlinux.given THEN "vmlinux"
         ELSE IF kdir.given THEN "make"
         ELSE v__version_source
    ELSE v__version_source

\* Kernel.__init__: the arguments are checked, and the architecture is built
\* from self.version.  The architecture is taken to be found and to match.
Construct ==
    /\ pc = "new"
    /\ IF (~kdir.given /\ ~vmlinux.given) \/ (arch_name = "None" /\ ~vmlinux.given)
       THEN /\ pc' = "failed" /\ raised' = "ValueError"
            /\ UNCHANGED <<v__version, v__version_source, last_op>>
       ELSE /\ v__version' = DerivedVersion
            /\ v__version_source' = DerivedSource
            /\ IF DerivedVersion = None
               THEN pc' = "failed" /\ raised' = "KernelVersionError" /\ UNCHANGED last_op
               ELSE pc' = "ready" /\ last_op' = "init" /\ UNCHANGED raised
    /\ UNCHANGED <<version_out, ret, vaddrs, cur_idx_vaddr, nread, ni_syscalls,
                   symbols_by_vaddr, symbols, ni_total, n_skipped, n_esoteric, syscalls>>
    /\ UNCHANGED inputVars

\* A read of the version property by the caller
ReadVersion ==
    /\ pc = "ready"
    /\ v__version' = DerivedVersion
    /\ v__version_source' = DerivedSource
    /\ IF DerivedVersion = None
       THEN raised' = "KernelVersionError" /\ version_out' = None /\ UNCHANGED last_op
       ELSE raised' = "none" /\ version_out' = DerivedVersion /\ last_op' = "version"
    /\ UNCHANGED <<pc, ret, vaddrs, cur_idx_vaddr, nread, ni_syscalls,
                   symbols_by_vaddr, symbols, ni_total, n_skipped, n_esoteric, syscalls>>
    /\ UNCHANGED inputVars

\* Kernel.clean
Clean ==
    /\ pc = "ready"
    /\ kdir.given
    /\ v__version' = None
    /\ last_op' = "clean"
    /\ raised' = "none"
    /\ version_out' = None
    /\ UNCHANGED <<v__version_source, pc, ret, vaddrs, cur_idx_vaddr, nread, ni_syscalls,
                   symbols_by_vaddr, symbols, ni_total, n_skipped, n_esoteric, syscalls>>
    /\ UNCHANGED inputVars

\* The version the reads of self.version in configure() give once
\* self.__version is None: kconfig_debugging(self.version) is the first
VersionInConfigure ==
    IF vmlinux.given THEN version_from_vmlinux ELSE version_from_make

\* Kernel.configure, with the reads of self.version it makes (lines 579-592,
\* and sync_config line 555)
Configure ==
    /\ pc = "ready"
    /\ kdir.given
    /\ v__version' = VersionInConfigure
    /\ v__version_source' = IF vmlinux.given THEN "vmlinux" ELSE "make"
    /\ version_out' = None
    /\ IF VersionInConfigure = None
       THEN raised' = "KernelVersionError" /\ UNCHANGED last_op
       ELSE raised' = "none" /\ last_op' = "configure"
    /\ UNCHANGED <<pc, ret, vaddrs, cur_idx_vaddr, nread, ni_syscalls,
                   symbols_by_vaddr, symbols, ni_total, n_skipped, n_esoteric, syscalls>>
    /\ UNCHANGED inputVars

\* Kernel.build, whatever try_disable_opt is
Build_ ==
    /\ pc = "ready"
    /\ kdir.given
    /\ v__version' = None
    /\ last_op' = "build"
    /\ raised' = "none"
    /\ version_out' = None
    /\ UNCHANGED <<v__version_source, pc, ret, vaddrs, cur_idx_vaddr, nread, ni_syscalls,
                   symbols_by_vaddr, symbols, ni_total, n_skipped, n_esoteric, syscalls>>
    /\ UNCHANGED inputVars

\* What `make kernelversion` may print
MakeOutputs ==
    { <<"5", ".", "4", ".", "0", "\n">>,
      <<"6", ".", "1", "0", "\n">>,
      <<"m", "a", "k", "e", ":", " ", "*", "*", "*">> }

\* Contents of the linux_banner symbol
Banners ==
    { <<"Linux version ", "5", ".", "4", ".", "0", "-", "r", "c", "1">>,
      <<"Linux version ", "4", ".", "1", "9", " ", "(", "g", "c", "c">>,
      <<"Linux version ", "x", ".", "y">>,
      <<"L", "i", "n", "u", "x", " ", "5", ".", "4">> }

\* The source tree is changed from outside (another release is checked out):
\* `make kernelversion` prints something else from now on.  What the last call
\* gave is forgotten.
SourceTreeChanges ==
    /\ pc = "ready"
    /\ kdir.given
    /\ \E out \in MakeOutputs \ {kdir.make} : kdir' = [kdir EXCEPT !.make = out]
    /\ raised' = "none"
    /\ version_out' = None
    /\ UNCHANGED <<vmlinux, arch_name, arch, enrichment>>
    /\ UNCHANGED <<v__version, v__version_source, last_op>>
    /\ UNCHANGED <<pc, ret, vaddrs, cur_idx_vaddr, nread, ni_syscalls,
                   symbols_by_vaddr, symbols, ni_total, n_skipped, n_esoteric, syscalls>>

\* Kernel(arch_name, vmlinux, kdir) is about to be constructed
VersionInit ==
    /\ \/ vmlinux = [given |-> FALSE, bits32 |-> FALSE, symbols |-> {}, file |-> <<>>,
                     has_opd |-> FALSE, banner |-> <<>>]
       \/ \E b \in {<<>>} \cup {<<x>> : x \in Banners} :
             vmlinux = [given |-> TRUE, bits32 |-> FALSE, symbols |-> BaseSymbols,
                        file |-> <<>>, has_opd |-> FALSE, banner |-> b]
    /\ \/ kdir = [given |-> FALSE, make |-> <<>>]
       \/ \E out \in MakeOutputs : kdir = [given |-> TRUE, make |-> out]
    /\ arch_name \in {"None", "x86-64"}
    /\ arch = Arch(FALSE, 0, FALSE, {}, <<>>, "name")
    /\ enrichment = AllFound
    /\ pc = "new"
    /\ raised = "none"
    /\ ret = <<>>
    /\ vaddrs = <<>>
    /\ cur_idx_vaddr = 0
    /\ nread = 0
    /\ ni_syscalls = {}
    /\ symbols_by_vaddr = <<>>
    /\ symbols = <<>>
    /\ ni_total = 0
    /\ n_skipped = 0
    /\ n_esoteric = 0
    /\ syscalls = <<>>
    /\ v__version = None
    /\ v__version_source = "None"
    /\ version_out = None
    /\ last_op = "none"

VersionNext ==
    \/ Construct
    \/ ReadVersion
    \/ Clean
    \/ Configure
    \/ Build_
    \/ SourceTreeChanges

SpecVersion == VersionInit /\ [][VersionNext]_vars

-----------------------------------------------------------------------------
(* Properties of the extraction (specification Spec) *)

\* The loop of lines 311-332 has run: symbols_by_vaddr is final
Resolved ==
    \/ pc \in {"sanity", "filter", "build", "esoteric", "assert", "enrich", "implemented"}
    \/ pc \in {"done", "raised"} /\ ni_syscalls # {}

\* __extract_syscalls has returned or raised
Terminated == pc \in {"done", "raised"}

\* Slot i (from 1) of the decoded table has a symbol
SlotResolves(i) == vaddrs[i] \in DOMAIN symbols_by_vaddr

\* Slot i resolves to a ni_syscall
SlotIsNi(i) == SlotResolves(i) /\ symbols_by_vaddr[vaddrs[i]] \in ni_syscalls

\* Slot i resolves to a syscall the architecture skips
SlotIsSkipped(i) ==
    /\ SlotResolves(i)
    /\ ~SlotIsNi(i)
    /\ SyscallName(symbols_by_vaddr[vaddrs[i]].name) \in arch.skip

\* Slot i should give a syscall of the output
SlotIsKept(i) == SlotResolves(i) /\ ~SlotIsNi(i) /\ ~SlotIsSkipped(i)

Slots == 1..Len(vaddrs)

\* Every hardcoded entry's symbol is in the image
EsotericPresent == ~EsotericMissing(arch.esoteric)

\* C1: when some slot of the decoded table has no symbol (and another has one),
\* the run completes without an exception and returns a syscall for every other
\* slot that resolves to a symbol that is neither a placeholder nor skipped.
C1_UnresolvedSlotOnlyDropped ==
    (/\ Terminated
     /\ Resolved
     /\ EsotericPresent
     /\ \E i \in Slots : ~SlotResolves(i)
     /\ \E i \in Slots : SlotResolves(i))
    => /\ pc = "done"
       /\ raised = "none"
       /\ \A i \in Slots : SlotIsKept(i) =>
             \E k \in 1..Len(ret) : ret[k].index = i - 1

\* C2: when no slot of the decoded table has a symbol although the image has a
\* placeholder symbol, the run returns the empty list and raises nothing.
C2_NothingResolvedReturnsEmpty ==
    (/\ Terminated
     /\ Resolved
     /\ \A i \in Slots : ~SlotResolves(i))
    => /\ pc = "done"
       /\ raised = "none"
       /\ ret = <<>>

\* The placeholder symbols of the image
Placeholders == {s \in Functions(vmlinux) : symbol_is_ni_syscall(s)}

\* Address a of the table is shared by a placeholder and another symbol
SharedWithPlaceholder(a) ==
    /\ \E s \in Placeholders : s.vaddr = a
    /\ \E s \in vmlinux.symbols \ Placeholders : s.vaddr = a

\* C3: once the symbols are resolved, every table address shared by a placeholder
\* and other symbols is assigned a placeholder, whatever the order in which the
\* symbols were enumerated.
C3_PlaceholderRetained ==
    Resolved =>
        \A a \in Range(vaddrs) : SharedWithPlaceholder(a) =>
            /\ a \in DOMAIN symbols_by_vaddr
            /\ symbols_by_vaddr[a] \in Placeholders

\* A table address shared by two placeholders and an alias has been resolved
C3_Witness ==
    /\ pc = "sanity"
    /\ VaNi \in Range(vaddrs)
    /\ {SymNi, SymCompatNi, SymVm86} \subseteq vmlinux.symbols
    /\ symbols_by_vaddr[VaNi] \in Placeholders

\* C6: when a hardcoded entry's symbol is missing from the image (and every slot
\* of the table resolves), the run completes and returns the table's syscalls
\* and the other hardcoded entries.
C6_MissingEsotericOnlyDropped ==
    (/\ Terminated
     /\ Resolved
     /\ \A i \in Slots : SlotResolves(i)
     /\ ~EsotericPresent)
    => /\ pc = "done"
       /\ raised = "none"
       /\ \A i \in Slots : SlotIsKept(i) =>
             \E k \in 1..Len(ret) : ret[k].index = i - 1
       /\ \A j \in 1..Len(arch.esoteric) :
             SymbolsNamed(vmlinux, arch.esoteric[j].sym_name) # {} =>
                \E k \in 1..Len(ret) : ret[k].esoteric /\ ret[k].name = arch.esoteric[j].name

\* C9: when every slot of a decoded table of N slots resolves to a symbol, the
\* assertion of line 426 does not fail, and once the hardcoded entries are added
\* the number of syscalls built is N - (slots resolving to a placeholder)
\* - (slots the architecture skips) + (hardcoded entries); equivalently the
\* retained, placeholder and skipped slots add up to N.
C9_CountsAddUp ==
    (Resolved /\ \A i \in Slots : SlotResolves(i)) =>
        /\ raised # "AssertionError"
        /\ pc \in {"assert", "enrich", "implemented"} =>
              /\ Len(syscalls) = Len(vaddrs)
                                 - Cardinality({i \in Slots : SlotIsNi(i)})
                                 - Cardinality({i \in Slots : SlotIsSkipped(i)})
                                 + Len(arch.esoteric)
              /\ (Len(syscalls) - n_esoteric) + ni_total + n_skipped = Len(vaddrs)
        /\ pc \in {"enrich", "implemented"} => CountsAgree

\* The assertion has passed on a table with placeholder slots, a skipped slot
\* and a retained slot, with a hardcoded entry added
C9_Witness ==
    /\ pc = "enrich"
    /\ \A i \in Slots : SlotResolves(i)
    /\ ni_total > 0
    /\ n_skipped > 0
    /\ n_esoteric > 0
    /\ \E k \in 1..Len(syscalls) : ~syscalls[k].esoteric

\* Syscall sc was built from slot sc.index of the table
FromItsSlot(sc) ==
    /\ sc.index >= 0
    /\ sc.index + 1 \in Slots
    /\ SlotResolves(sc.index + 1)
    /\ symbols_by_vaddr[vaddrs[sc.index + 1]] = sc.symbol
    /\ sc.number = sc.index + arch.syscall_num_base

\* Syscall sc is one of the architecture's hardcoded entries, its number verbatim
FromHardcodedEntry(sc) ==
    /\ sc.index = -1
    /\ \E j \in 1..Len(arch.esoteric) :
          /\ arch.esoteric[j].num = sc.number
          /\ arch.esoteric[j].name = sc.name
          /\ arch.esoteric[j].sym_name = sc.symbol.name

\* C10: every table-derived syscall built or returned has number = slot index +
\* numbering base, its slot index being the position in the decoded table of the
\* slot it was resolved from (not renumbered after drops); every hardcoded entry
\* has no slot index and the number the architecture profile gives.
C10_NumberIsSlotPlusBase ==
    /\ \A k \in 1..Len(syscalls) :
          IF syscalls[k].esoteric THEN FromHardcodedEntry(syscalls[k])
          ELSE FromItsSlot(syscalls[k])
    /\ \A k \in 1..Len(ret) :
          IF ret[k].esoteric THEN FromHardcodedEntry(ret[k])
          ELSE FromItsSlot(ret[k])

\* A run has returned a table-derived syscall whose slot index is not its
\* position in the output, with a nonzero numbering base, and a hardcoded entry
C10_Witness ==
    /\ pc = "done"
    /\ arch.syscall_num_base # 0
    /\ \E k \in 1..Len(ret) : ~ret[k].esoteric /\ ret[k].index # k - 1
    /\ \E k \in 1..Len(ret) : ret[k].esoteric

-----------------------------------------------------------------------------
(* Properties of the table unpacker (specification SpecUnpack) *)

\* The declared size sends the unpacker to the adaptive loop
AdaptiveMode == TableSymbol.size <= StrictThreshold

\* The file holds every byte of the declared table
FileHoldsTable == Len(vmlinux.file) * long_size >= TableSymbol.size

\* Address of slot k (from 0) of the table
SlotAddr(k) == TableSymbol.vaddr + k * long_size

AllInTarget(vas) == \A i \in 1..Len(vas) : InTarget(vas[i], TextSection)

\* C4 as claimed: a declared size larger than one pointer is decoded in strict
\* mode, so the adaptive loop runs only for sizes of at most one pointer and the
\* decoded length is size / pointer width for every larger size.
C4_StrictAboveOnePointer ==
    /\ pc = "adaptive" => TableSymbol.size <= long_size
    /\ (/\ pc = "unpacked"
        /\ TableSymbol.size > long_size
        /\ TableSymbol.size % long_size = 0
        /\ FileHoldsTable)
       => Len(vaddrs) = TableSymbol.size \div long_size

\* C4 amended: strict mode is used exactly for declared sizes above 0x80 bytes.
\* Such a size, when the file holds the table, gives size / pointer width
\* entries, those out of range included, if it is a whole number of pointers,
\* and struct.error if not; sizes up to 0x80 bytes go to the adaptive loop and
\* give in-range entries only.
C4_StrictAboveThreshold ==
    /\ pc = "adaptive" <=> (AdaptiveMode /\ pc \notin {"start", "unpacked", "raised"})
    /\ (TableSymbol.size > StrictThreshold /\ FileHoldsTable /\ pc # "start") =>
          IF TableSymbol.size % long_size = 0
          THEN /\ pc = "unpacked"
               /\ Len(vaddrs) = TableSymbol.size \div long_size
               /\ \A i \in 1..Len(vaddrs) : vaddrs[i] = vmlinux.file[i]
          ELSE pc = "raised" /\ raised = "struct.error"
    /\ (AdaptiveMode /\ pc # "start") => AllInTarget(vaddrs)

\* A table of declared size above 0x80 has been decoded in full, with an
\* out-of-range address kept
C4_Witness ==
    /\ pc = "unpacked"
    /\ TableSymbol.size > StrictThreshold
    /\ Len(vaddrs) = TableSymbol.size \div long_size
    /\ ~AllInTarget(vaddrs)

\* Addresses of the non-function symbols other than the table symbol
OtherDataAddrs == {s.vaddr : s \in {x \in vmlinux.symbols : x.type # "FUNC" /\ x # TableSymbol}}

\* Slot k (from 0) is one the claim says decoding stops at
ClaimedStop(k) ==
    /\ k < Len(vmlinux.file)
    /\ \/ ~InTarget(vmlinux.file[k + 1], TextSection)
       \/ SlotAddr(k) \in OtherDataAddrs

\* Slot k (from 0) is one the code stops at: the table's own address is no
\* boundary
CodeStop(k) ==
    /\ k < Len(vmlinux.file)
    /\ \/ ~InTarget(vmlinux.file[k + 1], TextSection)
       \/ SlotAddr(k) \in OtherDataAddrs \ {TableSymbol.vaddr}

\* n is the first slot that Stop holds of
FirstStop(n, Stop(_)) == Stop(n) /\ \A j \in 0..(n - 1) : ~Stop(j)

\* C5 as claimed: adaptive decoding always returns, with exactly the entries
\* before the first slot whose value is out of range or whose address is that of
\* another non-function symbol, and reads no word at or beyond such a symbol's
\* address.
C5_AdaptiveStopsBeforeBoundary ==
    AdaptiveMode =>
        /\ raised # "struct.error"
        /\ pc = "unpacked" =>
              \E n \in 0..Len(vmlinux.file) :
                  FirstStop(n, ClaimedStop) /\ vaddrs = SubSeq(vmlinux.file, 1, n)
        /\ \A b \in OtherDataAddrs : b >= SlotAddr(0) => SlotAddr(nread) <= b

\* C5 amended: adaptive decoding returns exactly the entries before the first
\* slot whose value is out of range or whose address, other than the table's
\* own, is that of a non-function symbol; it reads one word more than it keeps
\* (the word of the slot it stops at, which lies at the symbol's address when a
\* symbol stops it) and none after that; when the file ends before such a slot
\* it raises struct.error with every word of the file accepted.
C5_AdaptiveStopsAtBoundary ==
    AdaptiveMode =>
        /\ pc = "unpacked" =>
              \E n \in 0..Len(vmlinux.file) :
                  /\ FirstStop(n, CodeStop)
                  /\ vaddrs = SubSeq(vmlinux.file, 1, n)
                  /\ nread = n + 1
        /\ pc = "raised" =>
              /\ raised = "struct.error"
              /\ \A k \in 0..Len(vmlinux.file) : ~CodeStop(k)
              /\ vaddrs = vmlinux.file
        /\ pc = "adaptive" =>
              /\ nread = Len(vaddrs)
              /\ vaddrs = SubSeq(vmlinux.file, 1, nread)
              /\ \A k \in 0..(nread - 1) : ~CodeStop(k)
        /\ \A b \in OtherDataAddrs \ {SlotAddr(0)} :
              b >= SlotAddr(0) => SlotAddr(nread) <= b + long_size

\* The adaptive loop has kept some entries and stopped at the address of the
\* next table, whose first word, an in-range address, it has read
C5_Witness ==
    /\ AdaptiveMode
    /\ pc = "unpacked"
    /\ Len(vaddrs) >= 1
    /\ nread = Len(vaddrs) + 1
    /\ SlotAddr(Len(vaddrs)) \in OtherDataAddrs
    /\ InTarget(vmlinux.file[nread], TextSection)

-----------------------------------------------------------------------------
(* Properties of the version detection (specification SpecVersion) *)

\* C7 as claimed: KernelVersionError is raised only if neither the image nor the
\* build tool yields a parseable version (the build tool being tried whenever
\* the image gives none and a source tree is there).
C7_ErrorOnlyIfNeitherSource ==
    raised = "KernelVersionError" =>
        /\ ~vmlinux.given \/ version_from_vmlinux = None
        /\ ~kdir.given \/ version_from_make = None

\* C7 amended: the build tool is used only when no image is given.  With an
\* image, the version comes from its banner or KernelVersionError is raised, a
\* source tree that would yield a version notwithstanding; without one, it
\* comes from the build tool or KernelVersionError is raised.
C7_FallbackOnlyWithoutImage ==
    /\ v__version_source = "make" => (~vmlinux.given /\ kdir.given)
    /\ raised = "KernelVersionError" =>
          IF vmlinux.given THEN version_from_vmlinux = None
          ELSE version_from_make = None
    /\ (pc = "ready" /\ vmlinux.given) =>
          /\ version_from_vmlinux # None
          /\ v__version \in {None, version_from_vmlinux}
    /\ (pc = "failed" /\ vmlinux.given) =>
          /\ raised = "KernelVersionError"
          /\ version_from_vmlinux = None
    /\ version_out # None => version_out = v__version

\* The constructor has raised KernelVersionError for an image without a
\* parseable banner although the source tree yields a version
C7_Witness ==
    /\ pc = "failed"
    /\ raised = "KernelVersionError"
    /\ vmlinux.given
    /\ kdir.given
    /\ version_from_make # None

\* C8: after a completed clean(), configure() or build() the cached version is
\* empty, so that the next read derives it anew.
C8_CacheEmptyAfterAction ==
    last_op \in {"clean", "configure", "build"} => v__version = None

-----------------------------------------------------------------------------
(* Properties of the symbol resolution (specification SpecResolve) *)

\* The symbols of the image at address a
SymbolsAt(a) == {s \in vmlinux.symbols : s.vaddr = a}

\* The tie-break decides a pair alike in whichever order it is given the two
PairDeterministic ==
    \A a \in Range(vaddrs) : \A x, y \in SymbolsAt(a) :
        preferred_symbol(x, y) = preferred_symbol(y, x)

\* The tie-break's preferences do not go in a circle
PreferenceTransitive ==
    \A a \in Range(vaddrs) : \A x, y, z \in SymbolsAt(a) :
        (preferred_symbol(x, y) = x /\ preferred_symbol(y, z) = y) => preferred_symbol(x, z) = x

\* The assignments the loop of lines 311-332 can end with on this image, over
\* the orders of the placeholder set (line 307) and of the symbols (line 311)
FinalAssignments ==
    {ResolveAll(m, order, Range(vaddrs), ni_syscalls) :
        m \in NiMaps(ni_syscalls), order \in SymbolOrders(Range(vaddrs))}

\* Assignment d at the decoded addresses, the only ones the extraction looks up
AtDecoded(d) == [a \in DOMAIN d \cap Range(vaddrs) |-> d[a]]

\* Every order of enumeration gives the decoded addresses the symbols this run
\* gave them
SameForEveryOrder ==
    \A d \in FinalAssignments : AtDecoded(d) = AtDecoded(symbols_by_vaddr)

\* Every table address that has a symbol is assigned one symbol, of that address
OneSymbolPerAddress ==
    /\ \A a \in DOMAIN symbols_by_vaddr : symbols_by_vaddr[a] \in SymbolsAt(a)
    /\ \A a \in Range(vaddrs) : SymbolsAt(a) # {} => a \in DOMAIN symbols_by_vaddr

\* C11 as claimed: with a tie-break that is a function of the pair of
\* candidates, the assignment the resolution ends with is the same for every
\* order of enumeration of the symbols and of the placeholder set, three or
\* more symbols or two placeholders at one address included, and each decoded
\* address has at most one symbol.
C11_AssignmentOrderIndependent ==
    (pc = "sanity" /\ PairDeterministic) =>
        /\ SameForEveryOrder
        /\ OneSymbolPerAddress

\* C11 amended: the assignment is the same for every order of enumeration when
\* the tie-break decides each pair alike in either order and its preferences
\* are transitive; each decoded address has at most one symbol in any case.
C11_OrderIndependentIfTransitive ==
    pc = "sanity" =>
        /\ (PairDeterministic /\ PreferenceTransitive) => SameForEveryOrder
        /\ OneSymbolPerAddress

\* The resolution has ended, under a transitive tie-break, on a table with an
\* address of three symbols and an address of two placeholders
C11_Witness ==
    /\ pc = "sanity"
    /\ PairDeterministic /\ PreferenceTransitive
    /\ {VaRead, VaNi} \subseteq Range(vaddrs)
    /\ Cardinality(SymbolsAt(VaRead)) = 3
    /\ {SymNi, SymCompatNi} \subseteq ni_syscalls
    /\ symbols_by_vaddr[VaRead] = SymRead
    /\ symbols_by_vaddr[VaNi] = SymNi

-----------------------------------------------------------------------------
(* Properties of the implementation filter (specification SpecFilter) *)

\* The file is kernel/sys_ni.c of some source tree
IsSysNiFile(file) ==
    /\ Len(file) >= 2
    /\ SubSeq(file, Len(file) - 1, Len(file)) = <<"kernel", "sys_ni.c">>

\* The entries the filter is said to retain
Retained(sc) ==
    \/ sc.esoteric
    \/ /\ ~is_dummy_syscall(sc)
       /\ ~(~sc.good_location /\ IsSysNiFile(sc.file))

\* Table-derived entries in slot order, then the hardcoded entries
InInputOrder(scs) ==
    \A i, j \in 1..Len(scs) : i < j =>
        /\ scs[i].esoteric => scs[j].esoteric
        /\ (~scs[i].esoteric /\ ~scs[j].esoteric) => scs[i].index < scs[j].index

====
